---- MODULE Spec2Model ----
(***************************************************************************)
(* The session supervisor of gswarm_multibot (src/main.py): one active     *)
(* session record, a FIFO queue of waiting requesters, the coroutines that *)
(* start and stop sessions, the monitor of a child's output and the        *)
(* inactivity checker.  asyncio runs one coroutine at a time and switches  *)
(* only at an await, so every action below is the code one coroutine runs  *)
(* between two awaits; a coroutine suspended at an await is a record of    *)
(* the bag `tasks` whose pc names that await.  An await after which the    *)
(* coroutine only returns (a last send_safe or message.answer) keeps no    *)
(* record: the message is the step's output `out`.  A run consumes at     *)
(* most MaxMsgs inputs (updates and output lines), counted in `msgs`.      *)
(***************************************************************************)
EXTENDS Integers, Sequences, FiniteSets, Bags, TLC

\* ---------------------------------------------------------------- bounds
NumChats == 2       \* requesters (chat ids 1..NumChats)
MaxMsgs == 3        \* inputs of one run: Telegram updates and child output lines
MaxWrites == 1      \* lines written to one child's stdin
MaxNow == 2         \* last clock value

\* ------------------------------------------------------------- constants
\* Python's None, for the three fields of active_session.
None == -1
\* timedelta(minutes=10); the clock `now` counts units of ten minutes.
SESSION_TIMEOUT == 1

Chats == 1..NumChats
\* Every spawn answers one address message, so a run spawns at most MaxMsgs
\* children.
ProcIds == 1..MaxMsgs
\* The 42-character "0x..." text a requester sends.
EvmAddress == "0xADDRESS"
\* The code the child prints after "verify code:".
VerifyCode == "CODE"
\* What one output line of the child matches: any subset of the patterns.
LineKinds == SUBSET {"verify", "nopeer", "linked"}

VARIABLES
    active_session,  \* [chat_id, proc, last_active], all None when idle
    session_queue,   \* sequence of <<chat_id, evm_address>>
    procs,           \* process id -> "unborn" | "running" | "terminating" | "exited"
    stdin,           \* process id -> the lines written to the child's stdin
    tasks,           \* bag of suspended coroutines
    now,             \* datetime.utcnow()
    out,             \* the message the step sends: <<chat_id, text, number>>
    msgs,            \* inputs consumed so far
    known            \* requesters that have sent a message: 1..known

vars == <<active_session, session_queue, procs, stdin, tasks, now, out, msgs, known>>

IdleSession == [chat_id |-> None, proc |-> None, last_active |-> None]
NoEntry == <<None, "">>
NoOut == <<None, "", 0>>

\* A coroutine: the function it runs, the await it is suspended at, and its
\* arguments and locals.
\*   kind   "timer" (session_timeout_checker), "cmd_stop", "start" (start_session),
\*          "mon" (monitor_gswarm_output)
\*   chat   chat_id argument (the sender, for a handler)
\*   proc   proc argument of the monitor / proc spawned by start_session
\*   sproc  stop_active_session's local proc
\*   nxt    stop_active_session's (next_chat_id, next_evm); start_session's arguments
\*   reason stop_active_session's reason; for "start": who called it
\*   line   the patterns the monitor's current line matches
Task(kind, pc, chat, proc, reason) ==
    [kind |-> kind, pc |-> pc, chat |-> chat, proc |-> proc, sproc |-> None,
     nxt |-> NoEntry, reason |-> reason, line |-> {}]

TimerTask == Task("timer", "sleep", None, None, "")

TaskSet == BagToSet(tasks)

Init ==
    /\ active_session = IdleSession
    /\ session_queue = <<>>
    /\ procs = [p \in ProcIds |-> "unborn"]
    /\ stdin = [p \in ProcIds |-> <<>>]
    /\ tasks = SetToBag({TimerTask})
    /\ now = 0
    /\ out = NoOut
    /\ msgs = 0
    /\ known = 0

\* A machine state threaded through the code of one step: the session record,
\* the queue, the processes, the running coroutine and the message sent.
Mach(as, q, pr, t, o) == [as |-> as, q |-> q, pr |-> pr, t |-> t, o |-> o]

Here(t) == Mach(active_session, session_queue, procs, t, NoOut)

\* ------------------------------------------------------ stop_active_session
\* proc.terminate(): a running child is asked to stop.
Terminate(pr, p) == IF pr[p] = "running" THEN [pr EXCEPT ![p] = "terminating"] ELSE pr

\* The coroutine's function returns to its caller.
Returned(t) == [t EXCEPT !.pc = "ret", !.sproc = None, !.nxt = NoEntry]

\* Lines 63-68: clear the record, then pop the queue head and await the
\* "Your turn" notification; with an empty queue the function returns.
StopClearAndPop(M) ==
    IF M.q # <<>>
    THEN Mach(IdleSession, Tail(M.q), M.pr,
              [M.t EXCEPT !.pc = "stop_turn", !.sproc = None, !.nxt = Head(M.q)],
              <<Head(M.q)[1], "turn", 0>>)
    ELSE Mach(IdleSession, M.q, M.pr, Returned(M.t), M.o)

\* Lines 59-61: the chat_id read now is notified of the reason (an await).
StopNotify(M) ==
    IF M.as.chat_id # None
    THEN Mach(M.as, M.q, M.pr, [M.t EXCEPT !.pc = "stop_notify"],
              <<M.as.chat_id, M.t.reason, 0>>)
    ELSE StopClearAndPop(M)

\* Lines 46-57: terminate the process of the record and await its exit;
\* terminate() raises on a process whose return code is set, and the except
\* clause goes on without waiting.
StopEntry(M, reason) ==
    LET proc == M.as.proc
        t1 == [M.t EXCEPT !.reason = reason, !.sproc = proc]
    IN  IF proc # None /\ M.pr[proc] # "exited"
        THEN Mach(M.as, M.q, Terminate(M.pr, proc), [t1 EXCEPT !.pc = "stop_wait"], M.o)
        ELSE StopNotify(Mach(M.as, M.q, M.pr, t1, M.o))

\* Line 164 testing for an empty record instead of the monitor's own process.
OwnsRecord_WhenIdle(as, proc) == as.proc = None

\* Line 164: the monitor's finally clause stops the session of its own process.
OwnsRecord(as, proc) == as.proc = proc

\* Lines 163-165.
MonFinally(M) ==
    IF OwnsRecord(M.as, M.t.proc)
    THEN StopEntry(M, "exited")
    ELSE Mach(M.as, M.q, M.pr, [M.t EXCEPT !.pc = "done"], M.o)

Ended(M) == Mach(M.as, M.q, M.pr, [M.t EXCEPT !.pc = "done"], M.o)

\* What the caller does when stop_active_session has returned: the monitor's
\* return statement runs its finally clause, the timer sleeps again, cmd_stop
\* ends.
AfterReturn(M) ==
    IF M.t.pc # "ret" THEN M
    ELSE IF M.t.kind = "timer"
         THEN Mach(M.as, M.q, M.pr, [M.t EXCEPT !.pc = "sleep", !.reason = ""], M.o)
    ELSE IF M.t.kind = "mon" /\ M.t.reason # "exited"
         THEN LET F == MonFinally(M) IN IF F.t.pc = "ret" THEN Ended(F) ELSE F
    ELSE Ended(M)

\* The bag of coroutines with `old` replaced by `new` (dropped when it ended)
\* and the coroutines of `made` created.
Resched(old, new, made) ==
    ((tasks (-) SetToBag(old)) (+) SetToBag({x \in {new} : x.pc # "done"})) (+) SetToBag(made)

\* The step's outcome becomes the next state.
Commit(old, M0, made) ==
    LET M == AfterReturn(M0)
    IN  /\ active_session' = M.as
        /\ session_queue' = M.q
        /\ procs' = M.pr
        /\ out' = M.o
        /\ tasks' = Resched(old, M.t, made)

\* await proc.wait() returns: the process has exited (after the grace period
\* or the kill).
StopWaitDone(t) ==
    /\ t.pc = "stop_wait"
    /\ procs[t.sproc] = "exited"
    /\ Commit({t}, StopNotify(Here(t)), {})
    /\ UNCHANGED <<stdin, now, msgs, known>>

\* Line 61 with bot.send_message awaited directly, without send_safe's except
\* clause: a failed delivery raises and ends the coroutine at line 61.
StopNotifyDone_Raising(t) ==
    /\ t.pc = "stop_notify"
    /\ \E ok \in BOOLEAN :
          Commit({t}, IF ok THEN StopClearAndPop(Here(t)) ELSE Ended(Here(t)), {})
    /\ UNCHANGED <<stdin, now, msgs, known>>

\* await send_safe(chat_id, reason) returns (delivered or not).
StopNotifyDone(t) ==
    /\ t.pc = "stop_notify"
    /\ Commit({t}, StopClearAndPop(Here(t)), {})
    /\ UNCHANGED <<stdin, now, msgs, known>>

\* A coroutine running start_session(chat_id, evm_address) for `caller`
\* ("msg": handle_message, otherwise the reason of the stop that created it).
StartTask(entry, caller, pc) ==
    [Task("start", pc, entry[1], None, caller) EXCEPT !.nxt = entry]

\* await send_safe(next_chat_id, "Your turn") returns; line 69 creates the task.
StopTurnDone(t) ==
    /\ t.pc = "stop_turn"
    /\ Commit({t}, Here(Returned(t)), {StartTask(t.nxt, t.reason, "start_entry")})
    /\ UNCHANGED <<stdin, now, msgs, known>>

\* ------------------------------------------------------------ start_session
\* Line 85: a session is active.
SlotTaken(as) == as.chat_id # None

\* Lines 85-92 with the position computed after the append.
StartEntry_PositionAfterAppend(M) ==
    IF SlotTaken(M.as)
    THEN Mach(M.as, Append(M.q, M.t.nxt), M.pr, [M.t EXCEPT !.pc = "done"],
              <<M.t.chat, "queued", Len(M.q) + 2>>)
    ELSE Mach(M.as, M.q, M.pr, [M.t EXCEPT !.pc = "start_spawn"], M.o)

\* Lines 85-92 and the await of line 106: with a session active the request is
\* appended to the queue, its position is sent and the function returns;
\* otherwise the child is being spawned.
StartEntry(M) ==
    IF SlotTaken(M.as)
    THEN Mach(M.as, Append(M.q, M.t.nxt), M.pr, [M.t EXCEPT !.pc = "done"],
              <<M.t.chat, "queued", Len(M.q) + 1>>)
    ELSE Mach(M.as, M.q, M.pr, [M.t EXCEPT !.pc = "start_spawn"], M.o)

\* A task created by line 69 runs for the first time.
StartTaskRun(t) ==
    /\ t.pc = "start_entry"
    /\ Commit({t}, StartEntry(Here(t)), {})
    /\ UNCHANGED <<stdin, now, msgs, known>>

Unborn == {p \in ProcIds : procs[p] = "unborn"}

\* Line 115: the record of the new session.
NewSession(chat, p, time) == [chat_id |-> chat, proc |-> p, last_active |-> time]

\* create_subprocess_exec returned a process: line 115 records the session,
\* line 116 sends the notification and line 117 creates the monitor's task.
\* (Between 116 and 117 start_session touches nothing, so the monitor's first
\* read stands for the end of that await too.)
SpawnOk(t) ==
    /\ t.pc = "start_spawn"
    /\ Unborn # {}
    /\ LET p == CHOOSE x \in Unborn : \A y \in Unborn : x <= y
       IN  Commit({t},
                  Mach(NewSession(t.chat, p, now), session_queue,
                       [procs EXCEPT ![p] = "running"],
                       [t EXCEPT !.pc = "done", !.proc = p],
                       <<t.chat, "started", 0>>),
                  {Task("mon", "mon_read", t.chat, p, "")})
    /\ UNCHANGED <<stdin, now, msgs, known>>

\* Lines 105-119 with the record written before the spawn is known to have
\* worked: a failed spawn leaves a session without a process behind.
SpawnFail_RecordKept(t) ==
    /\ t.pc = "start_spawn"
    /\ Commit({t}, Mach(NewSession(t.chat, None, now), session_queue, procs,
                        [t EXCEPT !.pc = "done"], <<t.chat, "failed", 0>>), {})
    /\ UNCHANGED <<stdin, now, msgs, known>>

\* create_subprocess_exec raised: line 119 sends the failure and the function
\* returns.
SpawnFail(t) ==
    /\ t.pc = "start_spawn"
    /\ Commit({t}, Mach(active_session, session_queue, procs, [t EXCEPT !.pc = "done"],
                        <<t.chat, "failed", 0>>), {})
    /\ UNCHANGED <<stdin, now, msgs, known>>

\* ----------------------------------------------------- monitor_gswarm_output
\* `proc.stdin and proc.returncode is None`: the write is attempted.
Writable(status) == status \in {"running", "terminating"}

\* Line 141 without the newline: the child never sees the end of the command.
VerifyLine_NoNewline == "/verify " \o VerifyCode

\* The line a verification code is forwarded as.
VerifyLine == "/verify " \o VerifyCode \o "\n"

\* Lines 152-160 for a line matching L: the terminal phrases, no-peer first;
\* each sends its notice and awaits it before stop_active_session.
MonTerminal(M, L) ==
    IF "nopeer" \in L
    THEN Mach(M.as, M.q, M.pr, [M.t EXCEPT !.pc = "mon_nnote", !.line = {}],
              <<M.t.chat, "nopeer_notice", 0>>)
    ELSE IF "linked" \in L
    THEN Mach(M.as, M.q, M.pr, [M.t EXCEPT !.pc = "mon_snote", !.line = {}],
              <<M.t.chat, "linked_notice", 0>>)
    ELSE Mach(M.as, M.q, M.pr, [M.t EXCEPT !.pc = "mon_read", !.line = {}], M.o)

\* Lines 139-150: what the requester is told about the code of the line; ok
\* is whether write and drain went through (they raise on a broken pipe).
VerifyOutcome(status, ok) ==
    IF ~Writable(status) THEN "code_unavailable"
    ELSE IF ok THEN "code_sent" ELSE "code_failed"

\* Lines 139-150 with an except clause that also drops the session record
\* when the write failed.
MonLine_ClearOnFail(t, L) ==
    /\ t.pc = "mon_read"
    /\ msgs < MaxMsgs
    /\ msgs' = msgs + 1
    /\ IF "verify" \in L
       THEN \E ok \in BOOLEAN :
            LET res == VerifyOutcome(procs[t.proc], ok)
            IN  /\ res = "code_sent" => Len(stdin[t.proc]) < MaxWrites
                /\ stdin' = IF res = "code_sent"
                            THEN [stdin EXCEPT ![t.proc] = Append(@, VerifyLine)]
                            ELSE stdin
                /\ Commit({t}, Mach(IF res = "code_failed" THEN IdleSession
                                                            ELSE active_session,
                                    session_queue, procs,
                                    [t EXCEPT !.pc = "mon_vnote", !.line = L],
                                    <<t.chat, res, 0>>), {})
       ELSE /\ stdin' = stdin
            /\ Commit({t}, MonTerminal(Here(t), L), {})
    /\ UNCHANGED <<now, known>>

\* readline() returned a line matching the patterns L (one more input).
MonLine(t, L) ==
    /\ t.pc = "mon_read"
    /\ msgs < MaxMsgs
    /\ msgs' = msgs + 1
    /\ IF "verify" \in L
       THEN \E ok \in BOOLEAN :
            LET res == VerifyOutcome(procs[t.proc], ok)
            IN  /\ res = "code_sent" => Len(stdin[t.proc]) < MaxWrites
                /\ stdin' = IF res = "code_sent"
                            THEN [stdin EXCEPT ![t.proc] = Append(@, VerifyLine)]
                            ELSE stdin
                /\ Commit({t}, Mach(active_session, session_queue, procs,
                                    [t EXCEPT !.pc = "mon_vnote", !.line = L],
                                    <<t.chat, res, 0>>), {})
       ELSE /\ stdin' = stdin
            /\ Commit({t}, MonTerminal(Here(t), L), {})
    /\ UNCHANGED <<now, known>>

\* Lines 136-152 with the loop continued after the code was handled: the rest
\* of the line is not looked at.
MonVNoteDone_Continue(t) ==
    /\ t.pc = "mon_vnote"
    /\ Commit({t}, Mach(active_session, session_queue, procs,
                        [t EXCEPT !.pc = "mon_read", !.line = {}], NoOut), {})
    /\ UNCHANGED <<stdin, now, msgs, known>>

\* The send_safe about the verification code returned.
MonVNoteDone(t) ==
    /\ t.pc = "mon_vnote"
    /\ Commit({t}, MonTerminal(Here(t), t.line), {})
    /\ UNCHANGED <<stdin, now, msgs, known>>

\* The send_safe of line 153 / 158 returned: stop_active_session is entered.
MonSignalStop(t) ==
    /\ t.pc \in {"mon_nnote", "mon_snote"}
    /\ Commit({t}, StopEntry(Here(t), IF t.pc = "mon_nnote" THEN "nopeer" ELSE "linked"), {})
    /\ UNCHANGED <<stdin, now, msgs, known>>

\* readline() returned b"": the child's output is closed.
MonEof(t) ==
    /\ t.pc = "mon_read"
    /\ procs[t.proc] = "exited"
    /\ Commit({t}, MonFinally(Here(t)), {})
    /\ UNCHANGED <<stdin, now, msgs, known>>

\* ------------------------------------------------------- session_timeout_checker
\* Line 77 with the comparison weakened: a session exactly at the threshold
\* counts as timed out.
Expired_AtThreshold(as, time) ==
    as.chat_id # None /\ as.last_active # None /\ time - as.last_active >= SESSION_TIMEOUT

\* Line 77: the record holds a session whose last activity is older than the
\* timeout.
Expired(as, time) ==
    as.chat_id # None /\ as.last_active # None /\ time - as.last_active > SESSION_TIMEOUT

\* asyncio.sleep(30) returned: one check of the loop.
TimerCheck(t) ==
    /\ t.kind = "timer" /\ t.pc = "sleep"
    /\ IF Expired(active_session, now)
       THEN Commit({t}, StopEntry(Here(t), "timeout"), {})
       ELSE UNCHANGED <<active_session, session_queue, procs, tasks, out>>
    /\ UNCHANGED <<stdin, now, msgs, known>>

\* ------------------------------------------------------------ Telegram handlers
\* message.chat.id of an update: requesters are numbered in the order of their
\* first message.
Sender(c) ==
    /\ c <= known + 1
    /\ known' = IF c > known THEN c ELSE known

\* dp.feed_update: one more update, of chat c, is dispatched to its handler.
Receive(c) ==
    /\ msgs < MaxMsgs
    /\ msgs' = msgs + 1
    /\ Sender(c)

\* cmd_start: the welcome answer, nothing else.
CmdStart(c) ==
    /\ Receive(c)
    /\ out' = <<c, "welcome", 0>>
    /\ UNCHANGED <<active_session, session_queue, procs, stdin, tasks, now>>

\* Lines 181-185: the first queue entry of chat c is removed.
QueuedAt(q, c) == {i \in 1..Len(q) : q[i][1] = c}
\* Lines 181-185 with the pop done even when no entry matched: the head goes.
RemoveQueued_PopAnyway(q, c) ==
    IF QueuedAt(q, c) = {} THEN (IF q = <<>> THEN q ELSE Tail(q))
    ELSE LET i == CHOOSE x \in QueuedAt(q, c) : \A y \in QueuedAt(q, c) : x <= y
         IN  SubSeq(q, 1, i - 1) \o SubSeq(q, i + 1, Len(q))

RemoveQueued(q, c) ==
    IF QueuedAt(q, c) = {} THEN q
    ELSE LET i == CHOOSE x \in QueuedAt(q, c) : \A y \in QueuedAt(q, c) : x <= y
         IN  SubSeq(q, 1, i - 1) \o SubSeq(q, i + 1, Len(q))

\* cmd_stop of the session's owner: stop_active_session is entered.
CmdStopOwner(c) ==
    /\ Receive(c)
    /\ active_session.chat_id = c
    /\ Commit({}, StopEntry(Here(Task("cmd_stop", "entry", c, None, "")), "user"), {})
    /\ UNCHANGED <<stdin, now>>

\* cmd_stop of anyone else: removed from the queue, or told there is nothing.
\* (It can only shrink the queue, so it may come any number of times: it does
\* not count against MaxMsgs.)
CmdStopOther(c) ==
    /\ Sender(c)
    /\ msgs' = msgs
    /\ active_session.chat_id # c
    /\ session_queue' = RemoveQueued(session_queue, c)
    /\ out' = <<c, IF QueuedAt(session_queue, c) # {} THEN "removed" ELSE "nothing", 0>>
    /\ UNCHANGED <<active_session, procs, stdin, tasks, now>>

\* Line 194 without the test of line 193: every message sets last_active.
Refresh_Unguarded(as, c, time) == [as EXCEPT !.last_active = time]

\* Lines 193-194: a message of the session's owner refreshes last_active.
Refresh(as, c, time) == IF as.chat_id = c THEN [as EXCEPT !.last_active = time] ELSE as

\* The text of a requester's /verify message.
VerifyText == "/verify " \o VerifyCode

\* Line 197: the process a /verify text of chat c is written to.
VerifyTarget(as, c) == as.proc

\* Lines 196-238: a text starting with /verify.  (The webhook is deleted and
\* set again around the write; the supervisor's state is not involved.)
HandleVerify(c) ==
    /\ Receive(c)
    /\ active_session' = Refresh(active_session, c, now)
    /\ LET proc == VerifyTarget(active_session, c)
       IN  IF proc = None
           THEN /\ out' = <<c, "no_session", 0>>
                /\ stdin' = stdin
           ELSE IF ~Writable(procs[proc])
           THEN /\ out' = <<c, "has_exited", 0>>
                /\ stdin' = stdin
           ELSE \E ok \in BOOLEAN :
                IF ok
                THEN /\ Len(stdin[proc]) < MaxWrites
                     /\ out' = <<c, "verify_sent", 0>>
                     /\ stdin' = [stdin EXCEPT ![proc] = Append(@, VerifyText \o "\n")]
                ELSE /\ out' = <<c, "stdin_closed", 0>>
                     /\ stdin' = stdin
    /\ UNCHANGED <<session_queue, procs, tasks, now>>

\* Lines 240-241: a 42-character 0x text calls start_session.
HandleAddress(c) ==
    /\ Receive(c)
    /\ Commit({}, StartEntry(Mach(Refresh(active_session, c, now), session_queue, procs,
                                  StartTask(<<c, EvmAddress>>, "msg", "entry"), NoOut)), {})
    /\ UNCHANGED <<stdin, now>>

\* Line 243: any other text gets the usage answer.
HandleOther(c) ==
    /\ Receive(c)
    /\ active_session' = Refresh(active_session, c, now)
    /\ out' = <<c, "usage", 0>>
    /\ UNCHANGED <<session_queue, procs, stdin, tasks, now>>

\* ------------------------------------------------------------------ environment
\* The child exits, by itself or after terminate()/kill(): its output is
\* closed and the event loop sets its return code.
ProcExits(p) ==
    /\ procs[p] \in {"running", "terminating"}
    /\ procs' = [procs EXCEPT ![p] = "exited"]
    /\ out' = NoOut
    /\ UNCHANGED <<active_session, session_queue, stdin, tasks, now, msgs, known>>

\* Ten minutes pass.
Tick ==
    /\ now < MaxNow
    /\ now' = now + 1
    /\ out' = NoOut
    /\ UNCHANGED <<active_session, session_queue, procs, stdin, tasks, msgs, known>>

\* ---------------------------------------------------------------- specifications
\* The coroutines of the supervisor and the children's exits: the steps every
\* environment below shares.
Internal ==
    \/ \E t \in TaskSet : StopWaitDone(t)
    \/ \E t \in TaskSet : StopNotifyDone(t)
    \/ \E t \in TaskSet : StopTurnDone(t)
    \/ \E t \in TaskSet : StartTaskRun(t)
    \/ \E t \in TaskSet : SpawnOk(t)
    \/ \E t \in TaskSet : SpawnFail(t)
    \/ \E t \in TaskSet : MonEof(t)
    \/ \E p \in ProcIds : ProcExits(p)

\* The supervisor with requesters that send only addresses and /stop, and
\* children that print nothing before they exit.
NextCore ==
    \/ Internal
    \/ \E c \in Chats : CmdStopOwner(c)
    \/ \E c \in Chats : CmdStopOther(c)
    \/ \E c \in Chats : HandleAddress(c)

SpecCore == Init /\ [][NextCore]_vars

\* The supervisor with the inactivity checker running and time passing;
\* requesters send addresses, /start and other texts.
NextTimer ==
    \/ Internal
    \/ \E c \in Chats : HandleAddress(c)
    \/ \E c \in Chats : CmdStart(c)
    \/ \E c \in Chats : HandleOther(c)
    \/ \E t \in TaskSet : TimerCheck(t)
    \/ Tick

SpecTimer == Init /\ [][NextTimer]_vars

\* The supervisor with requesters that send addresses, /verify and the
\* owner's /stop.
NextVerify ==
    \/ Internal
    \/ \E c \in Chats : HandleAddress(c)
    \/ \E c \in Chats : HandleVerify(c)
    \/ \E c \in Chats : CmdStopOwner(c)

SpecVerify == Init /\ [][NextVerify]_vars

\* The supervisor with children that print lines.
NextLines ==
    \/ Internal
    \/ \E c \in Chats : HandleAddress(c)
    \/ \E t \in TaskSet, L \in LineKinds : MonLine(t, L)
    \/ \E t \in TaskSet : MonVNoteDone(t)
    \/ \E t \in TaskSet : MonSignalStop(t)

SpecLines == Init /\ [][NextLines]_vars

\* What the event loop and the operating system guarantee: a coroutine whose
\* await has returned is run, send_safe and create_subprocess_exec return,
\* and a process that was asked to terminate exits (it is killed after five
\* seconds).  A child that nobody stops may run forever.
Progress ==
    \/ \E t \in TaskSet : StopWaitDone(t)
    \/ \E t \in TaskSet : StopNotifyDone(t)
    \/ \E t \in TaskSet : StopTurnDone(t)
    \/ \E t \in TaskSet : StartTaskRun(t)
    \/ \E t \in TaskSet : SpawnOk(t) \/ SpawnFail(t)
    \/ \E t \in TaskSet : MonEof(t)
    \/ \E t \in TaskSet : MonVNoteDone(t)
    \/ \E t \in TaskSet : MonSignalStop(t)
    \/ \E p \in ProcIds : procs[p] = "terminating" /\ ProcExits(p)

\* The supervisor with requesters that send addresses and the owner's /stop,
\* and children that print nothing before they exit.
NextStops ==
    \/ Internal
    \/ \E c \in Chats : HandleAddress(c)
    \/ \E c \in Chats : CmdStopOwner(c)

SpecStops == Init /\ [][NextStops]_vars

SpecStopsFair == SpecStops /\ WF_vars(Progress)

\* The supervisor with children that print lines and requesters that send
\* /verify: both writers of a child's stdin.
NextPipe ==
    \/ NextLines
    \/ \E c \in Chats : HandleVerify(c)

SpecPipe == Init /\ [][NextPipe]_vars

\* No start_session is between its test of line 85 and its update of line 115.
NoSpawnPending == \A u \in TaskSet : u.pc # "start_spawn"

\* The supervisor with the inactivity checker and children that print lines,
\* and requesters who send an address only while no spawn is pending (so no
\* two start_session calls overlap on a message).
NextTurns ==
    \/ Internal
    \/ \E c \in Chats : NoSpawnPending /\ HandleAddress(c)
    \/ \E t \in TaskSet, L \in LineKinds : MonLine(t, L)
    \/ \E t \in TaskSet : MonVNoteDone(t)
    \/ \E t \in TaskSet : MonSignalStop(t)
    \/ \E t \in TaskSet : TimerCheck(t)
    \/ Tick

SpecTurns == Init /\ [][NextTurns]_vars

\* Every input at once.
Next ==
    \/ NextCore
    \/ NextTimer
    \/ NextVerify
    \/ NextLines

Spec == Init /\ [][Next]_vars

\* ---------------------------------------------------------------- properties
\* A child that was started and has not terminated.
Alive(p) == procs[p] \in {"running", "terminating"}

\* C1: at every moment at most one child process is alive.
C1_SingleSlot == Cardinality({p \in ProcIds : Alive(p)}) <= 1

\* C2: no child is alive without being the process the active session's
\* record refers to.
C2_NoLeakedProcess == \A p \in ProcIds : Alive(p) => active_session.proc = p

\* A requester other than c is waiting for the slot: in the queue, or popped
\* from it by a stop that has not yet run start_session for it.
WaitingBefore(c) ==
    \/ QueuedAt(session_queue, c) # DOMAIN session_queue
    \/ \E t \in TaskSet : t.pc \in {"stop_turn", "start_entry"} /\ t.nxt[1] # c

\* C3: the slot is granted in arrival order: an address that arrives while
\* another requester is waiting does not go on to spawn ahead of it.
C3_Fifo ==
    [][\A c \in Chats :
          (HandleAddress(c) /\ ~SlotTaken(active_session)) => ~WaitingBefore(c)]_vars

\* How often requester c is a member: as the session's owner and in the queue.
Membership(c) ==
    Cardinality(QueuedAt(session_queue, c)) + (IF active_session.chat_id = c THEN 1 ELSE 0)

\* C4: a requester is the active session's owner or one queue entry, never
\* both and never two entries.
C4_NoDuplicateMembership == \A c \in Chats : Membership(c) <= 1

\* The step pops the queue head for promotion: a stop arrives at its
\* "Your turn" notification.
Promotes ==
    \E t \in BagToSet(tasks') :
        t.pc = "stop_turn" /\ CopiesIn(t, tasks') > CopiesIn(t, tasks)

\* C5: when a stop promotes the next entry the supervisor is idle and the
\* child of the record it discards has been asked to terminate.
C5_CleanupBeforePromotion ==
    [][Promotes => /\ active_session' = IdleSession
                   /\ active_session.proc # None => procs[active_session.proc] # "running"]_vars

\* Stop t runs lines 63-67 in this step and pops the queue head.
PopsBy(t) ==
    /\ StopNotifyDone(t) \/ StopWaitDone(t)
    /\ session_queue # <<>>
    /\ session_queue' = Tail(session_queue)

\* No child was started after p, so only a stop can have changed the record
\* of p's session.
LatestChild(p) == \A x \in ProcIds : x > p => procs[x] = "unborn"

\* C6: overlapping stops of one session pop one queue entry: a stop pops only
\* while the record is still that of the process it stopped, not after another
\* stop has ended the session.
C6_StopOnce ==
    [][\A t \in TaskSet :
          (PopsBy(t) /\ t.sproc # None /\ LatestChild(t.sproc))
              => active_session.proc = t.sproc]_vars

\* C7: a /verify of a requester who does not own the active session is
\* written to no child's stdin.
C7_VerifyOwnerOnly ==
    [][\A c \in Chats :
          (HandleVerify(c) /\ active_session.chat_id # c) => stdin' = stdin]_vars

\* C8: after a timeout the popped queue head becomes the active session: the
\* start_session created by the timeout's stop does not find the slot held by
\* another requester and go back to the queue.
C8_TimeoutPromotesHead ==
    [][\A t \in TaskSet :
          (t.kind = "start" /\ t.reason = "timeout" /\ StartTaskRun(t)
             /\ active_session.chat_id # t.chat)
              => session_queue' = session_queue]_vars

\* The inactivity checker leaves its sleep and enters stop_active_session.
TimerLeavesSleep ==
    /\ TimerTask \in TaskSet
    /\ \E t \in BagToSet(tasks') : t.kind = "timer" /\ t.pc # "sleep"

\* The session is active and its inactivity exceeds the threshold right now.
Overdue ==
    /\ active_session.chat_id # None
    /\ active_session.last_active # None
    /\ now - active_session.last_active > SESSION_TIMEOUT

\* C9: the inactivity checker enters the stop only for an active session
\* whose inactivity at that check exceeds the threshold, and a check of an
\* idle supervisor or of a fresh session pops nothing.
C9_TimerGuard ==
    [][/\ TimerLeavesSleep => Overdue
       /\ \A t \in TaskSet :
             (TimerCheck(t) /\ ~Overdue)
                 => UNCHANGED <<active_session, session_queue, procs>>]_vars

\* The checker has evicted an overdue session and awaits its child's exit.
C9_Witness ==
    \E t \in TaskSet : t.kind = "timer" /\ t.pc = "stop_wait" /\ t.reason = "timeout"

\* C10: every message of the session's owner, commands included, sets
\* last_active to the current time, and nobody else's message changes it.
C10_RefreshOnOwnerMessage ==
    [][\A c \in Chats :
          (CmdStart(c) \/ HandleOther(c) \/ HandleAddress(c) \/ HandleVerify(c))
              => IF active_session.chat_id = c
                 THEN active_session'.last_active = now
                 ELSE active_session'.last_active = active_session.last_active]_vars

\* The queue entries of requesters other than c, in order.
Others(q, c) == SelectSeq(q, LAMBDA e : e[1] # c)

\* C11: a /stop of a requester who is only queued takes the requester out of
\* the queue and touches nothing else: afterwards the requester has no queue
\* entry, the other entries keep their order, and the session record and the
\* processes are as before.
C11_StopQueued ==
    [][\A c \in Chats :
          (CmdStopOther(c) /\ QueuedAt(session_queue, c) # {})
              => /\ QueuedAt(session_queue', c) = {}
                 /\ Others(session_queue', c) = Others(session_queue, c)
                 /\ active_session' = active_session
                 /\ procs' = procs]_vars

\* C12: a /stop of a requester who neither owns the session nor is queued is
\* answered with the informational text and changes nothing, however often it
\* is repeated.
C12_IdempotentStop ==
    [][\A c \in Chats :
          (CmdStopOther(c) /\ QueuedAt(session_queue, c) = {})
              => /\ out' = <<c, "nothing", 0>>
                 /\ UNCHANGED <<active_session, session_queue, procs, stdin, tasks>>]_vars

\* Such a /stop has just been answered while another requester's session is
\* active and the queue is not empty.
C12_Witness ==
    \E c \in Chats :
        /\ out = <<c, "nothing", 0>>
        /\ active_session.chat_id \notin {None, c}
        /\ session_queue # <<>>
        /\ QueuedAt(session_queue, c) = {}

\* start_session t leaves the await of its spawn in this step and no process
\* was started: the spawn failed.
SpawnFailed(t) ==
    /\ t.kind = "start" /\ t.pc = "start_spawn"
    /\ CopiesIn(t, tasks') < CopiesIn(t, tasks)
    /\ procs' = procs

\* C13: a failed spawn creates no session record, tells the requester of the
\* failure and leaves the queue as it was.
C13_SpawnFailed ==
    [][\A t \in TaskSet :
          SpawnFailed(t) => /\ active_session' = active_session
                            /\ session_queue' = session_queue
                            /\ out' = <<t.chat, "failed", 0>>]_vars

\* A requester has just been told that the spawn failed and the supervisor is
\* idle.
C13_Witness ==
    \E c \in Chats : out = <<c, "failed", 0>> /\ active_session = IdleSession

\* C14: a line with a verification code read by the monitor of the active
\* session's child is answered with exactly one write of "/verify <code>" and
\* a newline to that child when the write goes through and with no write
\* otherwise; the requester is told the outcome, and record, queue and
\* processes stay as they are.
C14_VerifyForwarding ==
    [][\A t \in TaskSet, L \in LineKinds :
          (MonLine(t, L) /\ "verify" \in L /\ active_session.proc = t.proc)
              => /\ out'[1] = t.chat
                 /\ out'[2] \in {"code_sent", "code_failed", "code_unavailable"}
                 /\ out'[2] = "code_sent"
                       => stdin' = [stdin EXCEPT ![t.proc] =
                                       Append(@, "/verify " \o VerifyCode \o "\n")]
                 /\ out'[2] # "code_sent" => stdin' = stdin
                 /\ out'[2] = "code_unavailable" => procs[t.proc] = "exited"
                 /\ UNCHANGED <<active_session, session_queue, procs>>]_vars

\* The code of a line has just been forwarded to the active session's child.
C14_Witness ==
    \E c \in Chats :
        /\ out = <<c, "code_sent", 0>>
        /\ active_session.chat_id = c
        /\ active_session.proc # None
        /\ stdin[active_session.proc] = <<"/verify " \o VerifyCode \o "\n">>

\* The line matches a terminal phrase.
Terminal(L) == L \cap {"nopeer", "linked"} # {}

\* C15: a line matching both the code pattern and a terminal phrase is
\* handled only as the terminal signal: nothing is written to the child for it.
C15_TerminalOnly ==
    [][\A t \in TaskSet, L \in LineKinds :
          (MonLine(t, L) /\ "verify" \in L /\ Terminal(L)) => stdin' = stdin]_vars

\* The monitor of process p is suspended at pc after this step.
MonAt(p, pcs) ==
    \E m \in BagToSet(tasks') : m.kind = "mon" /\ m.proc = p /\ m.pc \in pcs

\* C15 as the code has it: such a line is handled as both.  The code is
\* forwarded first (the write is attempted whenever the process has not
\* exited), then the terminal notice is sent, no-peer before success, and
\* then the stop asks the recorded process to terminate.
C15_BothHandled ==
    [][\A t \in TaskSet :
          /\ \A L \in LineKinds :
                (MonLine(t, L) /\ "verify" \in L /\ Terminal(L))
                    => /\ MonAt(t.proc, {"mon_vnote"})
                       /\ procs[t.proc] # "exited" => out'[2] \in {"code_sent", "code_failed"}
                       /\ out'[2] = "code_sent"
                             => stdin'[t.proc] = Append(stdin[t.proc],
                                                        "/verify " \o VerifyCode \o "\n")
          /\ (t.pc = "mon_vnote" /\ MonVNoteDone(t) /\ Terminal(t.line))
                => /\ MonAt(t.proc, {"mon_nnote", "mon_snote"})
                   /\ out' = <<t.chat, IF "nopeer" \in t.line THEN "nopeer_notice"
                                                               ELSE "linked_notice", 0>>
          /\ (t.pc \in {"mon_nnote", "mon_snote"} /\ MonSignalStop(t))
                => (active_session.proc # None
                       => procs'[active_session.proc] # "running")]_vars

\* The code of a line that also carries a terminal phrase has just been
\* written to the child.
C15_Witness ==
    \E t \in TaskSet :
        /\ t.pc = "mon_vnote" /\ Terminal(t.line)
        /\ out = <<t.chat, "code_sent", 0>>
        /\ stdin[t.proc] # <<>>

\* The child of the active session has exited: its output is closed.  (An
\* exited child stays exited, so the end of this condition is the end of the
\* record of that child.)
StreamClosed == active_session.proc # None /\ procs[active_session.proc] = "exited"

\* C16: when the output of the active session's child closes, the monitor
\* enters the stop with the reason "process exited", the record of that child
\* is eventually cleared, and the step that clears a record pops the queue
\* head, if any, for promotion.
C16_EofStops ==
    /\ StreamClosed ~> ~StreamClosed
    /\ [][/\ \A t \in TaskSet :
                (t.pc = "mon_read" /\ MonEof(t) /\ active_session.proc = t.proc)
                    => out' = <<active_session.chat_id, "exited", 0>>
          /\ (active_session # IdleSession /\ active_session' = IdleSession
                 /\ session_queue # <<>>)
                => (session_queue' = Tail(session_queue) /\ Promotes)]_vars

\* The stop entered at the end of a child's output has cleared the record and
\* popped the queue head.
C16_Witness ==
    /\ active_session = IdleSession
    /\ \E t \in TaskSet :
          /\ t.kind = "mon" /\ t.pc = "stop_turn" /\ t.reason = "exited"
          /\ procs[t.proc] = "exited"

\* Coroutine t leaves the await it is suspended at in this step.
Resumes(t) == CopiesIn(t, tasks') < CopiesIn(t, tasks)

\* A start_session task for the queue entry e is created in this step.
Schedules(e) ==
    \E n \in BagToSet(tasks') :
        /\ n.kind = "start" /\ n.pc = "start_entry" /\ n.nxt = e
        /\ CopiesIn(n, tasks') > CopiesIn(n, tasks)

\* C17: a stop always advances the queue, whatever became of its
\* notifications: when the send to the displaced requester returns the record
\* is cleared and the queue head, if any, is popped and told its turn; when
\* that send returns the head's start_session is scheduled.
C17_AdvanceAfterStop ==
    [][\A t \in TaskSet :
          /\ (t.pc = "stop_notify" /\ Resumes(t))
                => /\ active_session' = IdleSession
                   /\ session_queue # <<>>
                         => /\ session_queue' = Tail(session_queue)
                            /\ out' = <<Head(session_queue)[1], "turn", 0>>
                            /\ \E n \in BagToSet(tasks') :
                                  n.pc = "stop_turn" /\ n.nxt = Head(session_queue)
          /\ (t.pc = "stop_turn" /\ Resumes(t)) => Schedules(t.nxt)]_vars

\* A stop has cleared the record and scheduled the start of the popped head.
C17_Witness ==
    /\ active_session = IdleSession
    /\ \E n \in TaskSet : n.kind = "start" /\ n.pc = "start_entry" /\ n.reason # "msg"

\* C18: a write to a child's stdin that fails, in the monitor's forwarding of
\* a code or in the handling of a /verify message, is reported to the
\* requester and ends nothing: owner and process of the record, the queue,
\* the processes and the coroutines are as before (the message of the owner
\* refreshes last_active, as every message of the owner does).
C18_PipeClosed ==
    [][/\ \A t \in TaskSet, L \in LineKinds :
             (MonLine(t, L) /\ out'[2] = "code_failed")
                 => /\ out'[1] = t.chat
                    /\ MonAt(t.proc, {"mon_vnote"})
                    /\ UNCHANGED <<active_session, session_queue, procs, stdin>>
       /\ \A c \in Chats :
             (HandleVerify(c) /\ out'[2] = "stdin_closed")
                 => /\ out'[1] = c
                    /\ active_session'.chat_id = active_session.chat_id
                    /\ active_session'.proc = active_session.proc
                    /\ active_session'.last_active \in {active_session.last_active, now}
                    /\ UNCHANGED <<session_queue, procs, stdin, tasks>>]_vars

\* The monitor's write of a code has just failed and the session of its
\* child is still the active one.
C18_Witness ==
    \E t \in TaskSet :
        /\ t.pc = "mon_vnote"
        /\ out = <<t.chat, "code_failed", 0>>
        /\ active_session.proc = t.proc
        /\ active_session.chat_id = t.chat

\* C19: a start request that arrives while the record holds another
\* requester's session is appended at the tail of the queue, and the position
\* sent to the requester is the index of the new entry: the length of the
\* queue before the append plus one.
C19_QueuePosition ==
    [][\A c \in Chats :
          (HandleAddress(c) /\ active_session.chat_id \notin {None, c})
              => /\ session_queue' = Append(session_queue, <<c, EvmAddress>>)
                 /\ out' = <<c, "queued", Len(session_queue) + 1>>
                 /\ session_queue'[out'[3]] = <<c, EvmAddress>>
                 /\ out'[3] = Len(session_queue')]_vars

\* A request has just been queued behind an earlier one, at position 2 or
\* more, while another requester owns the session.
C19_Witness ==
    \E c \in Chats :
        /\ active_session.chat_id \notin {None, c}
        /\ Len(session_queue) >= 2
        /\ out = <<c, "queued", Len(session_queue)>>
        /\ session_queue[Len(session_queue)] = <<c, EvmAddress>>

\* C20: a terminal signal seen by the monitor of a child stops only the
\* session that owns that child: when the monitor resumes from its notice
\* after its child has exited, while the record holds another requester's
\* session with another child, it terminates no process and leaves the record
\* and the queue alone.
C20_MonitorOwnSession ==
    [][\A t \in TaskSet :
          (/\ MonSignalStop(t)
           /\ procs[t.proc] = "exited"
           /\ active_session.proc \notin {None, t.proc}
           /\ active_session.chat_id # t.chat)
              => UNCHANGED <<procs, active_session, session_queue>>]_vars

\* C21: the queue does not stall: whenever the record is empty while
\* requests are queued, a session becomes active later on (the coroutines
\* being scheduled fairly).
C21_NoStalledQueue ==
    (active_session.chat_id = None /\ Len(session_queue) > 0)
        ~> (active_session.chat_id # None)

\* C22: the session record is all-or-nothing in every reachable state:
\* chat_id, proc and last_active are all unset or all set.
C22_AllOrNothing ==
    \/ /\ active_session.chat_id = None
       /\ active_session.proc = None
       /\ active_session.last_active = None
    \/ /\ active_session.chat_id # None
       /\ active_session.proc # None
       /\ active_session.last_active # None

\* The owner's message has just refreshed the record of a session started
\* earlier, and a message of another requester was handled before.
C22_Witness ==
    /\ active_session.chat_id # None
    /\ active_session.proc # None
    /\ now > 0
    /\ active_session.last_active = now
    /\ out = <<active_session.chat_id, "usage", 0>>
    /\ known = 2

====
